---- MODULE Spec2Model ----
(***************************************************************************)
(* Model of the hayabusa rule engine (src/detections/rule.rs) and of the   *)
(* detection run that drives it (src/detections/detection.rs).             *)
(*                                                                         *)
(* Strings are sequences of one-character strings, so that splitting on    *)
(* ".", stringification and regular-expression matching are computed and   *)
(* not assumed.  Option, Result, serde_json::Value and yaml_rust::Yaml are *)
(* tagged records.                                                         *)
(***************************************************************************)
EXTENDS Integers, Sequences, FiniteSets, TLC

----------------------------------------------------------------------------
(* String literals used by the source and by the rule documents.           *)

STR_detection ==
    <<"d", "e", "t", "e", "c", "t", "i", "o", "n">>
STR_selection ==
    <<"s", "e", "l", "e", "c", "t", "i", "o", "n">>
STR_detection_selection ==
    <<"d", "e", "t", "e", "c", "t", "i", "o", "n", " ", "-", ">", " ", "s", "e", "l", "e", "c", "t", "i", "o", "n">>
STR_arrow ==
    <<" ", "-", ">", " ">>
STR_found_unknown_key ==
    <<"F", "o", "u", "n", "d", " ", "u", "n", "k", "n", "o", "w", "n", " ", "k", "e", "y", ".", " ", "k", "e", "y", ":">>
STR_unknown_error ==
    <<"u", "n", "k", "n", "o", "w", "n", " ", "e", "r", "r", "o", "r", " ", "o", "c", "c", "u", "r", "e", "d", ".", " ", "[", "k", "e", "y", ":">>
STR_cannot_parse_regex ==
    <<"c", "a", "n", "n", "o", "t", " ", "p", "a", "r", "s", "e", " ", "r", "e", "g", "e", "x", ".", " ", "[", "r", "e", "g", "e", "x", ":">>
STR_key ==
    <<",", " ", "k", "e", "y", ":">>
STR_close ==
    <<"]">>
STR_true ==
    <<"t", "r", "u", "e">>
STR_false ==
    <<"f", "a", "l", "s", "e">>
STR_space ==
    <<" ">>
STR_EventID ==
    <<"E", "v", "e", "n", "t", "I", "D">>
STR_LogonType ==
    <<"L", "o", "g", "o", "n", "T", "y", "p", "e">>
STR_Channel ==
    <<"C", "h", "a", "n", "n", "e", "l">>
STR_Event_System_Channel ==
    <<"E", "v", "e", "n", "t", ".", "S", "y", "s", "t", "e", "m", ".", "C", "h", "a", "n", "n", "e", "l">>
STR_Event ==
    <<"E", "v", "e", "n", "t">>
STR_System ==
    <<"S", "y", "s", "t", "e", "m">>
STR_abc ==
    <<"a", "b", "c">>
STR_xabcx ==
    <<"x", "a", "b", "c", "x">>
STR_abcd ==
    <<"a", "b", "c", "d">>

----------------------------------------------------------------------------
(* Option<T> and Result<(), Vec<String>>.                                  *)

None ==
    [tag |-> "None"]
Some(x) ==
    [tag |-> "Some", v |-> x]
is_none(o) ==
    o.tag = "None"
is_some(o) ==
    o.tag = "Some"
Ok ==
    [r |-> "Ok"]
Err(msgs) ==
    [r |-> "Err", e |-> msgs]
is_err(res) ==
    res.r = "Err"

(* yaml_rust::Yaml.  A Hash is an insertion-ordered list of entries with   *)
(* distinct keys; Real keeps the text it was written with.                 *)
YNull ==
    [y |-> "Null"]
YBadValue ==
    [y |-> "BadValue"]
YBoolean(b) ==
    [y |-> "Boolean", b |-> b]
YInteger(i) ==
    [y |-> "Integer", i |-> i]
YReal(text) ==
    [y |-> "Real", r |-> text]
YString(s) ==
    [y |-> "String", s |-> s]
YArray(a) ==
    [y |-> "Array", a |-> a]
YHash(h) ==
    [y |-> "Hash", h |-> h]
YAlias(n) ==
    [y |-> "Alias", n |-> n]
Entry(k, v) ==
    [k |-> k, v |-> v]

(* serde_json::Value.  An Object is a function from key strings to values. *)
JNull ==
    [t |-> "Null"]
JBool(b) ==
    [t |-> "Bool", b |-> b]
JNumber(n) ==
    [t |-> "Number", n |-> n]
JString(s) ==
    [t |-> "String", s |-> s]
JArray(a) ==
    [t |-> "Array", a |-> a]
JObject(o) ==
    [t |-> "Object", o |-> o]
EmptyMap ==
    [k \in {} |-> JNull]

----------------------------------------------------------------------------
(* Stringification (to_string) of integers and booleans.                   *)

Digit(d) ==
    CASE d = 0 -> "0" [] d = 1 -> "1" [] d = 2 -> "2" [] d = 3 -> "3"
      [] d = 4 -> "4" [] d = 5 -> "5" [] d = 6 -> "6" [] d = 7 -> "7"
      [] d = 8 -> "8" [] d = 9 -> "9"

RECURSIVE NatToString(_)
NatToString(n) ==
    IF n < 10 THEN <<Digit(n)>>
    ELSE Append(NatToString(n \div 10), Digit(n % 10))

IntToString(i) ==
    IF i < 0 THEN <<"-">> \o NatToString(-i) ELSE NatToString(i)

BoolToString(b) ==
    IF b THEN STR_true ELSE STR_false

(* str::split("."): the pieces between the dots, empty pieces included.    *)
RECURSIVE SplitFrom(_, _, _)
SplitFrom(s, pos, cur) ==
    IF pos > Len(s) THEN <<cur>>
    ELSE IF s[pos] = "." THEN <<cur>> \o SplitFrom(s, pos + 1, <<>>)
    ELSE SplitFrom(s, pos + 1, Append(cur, s[pos]))

Split(s) ==
    SplitFrom(s, 1, <<>>)

----------------------------------------------------------------------------
(* regex::Regex (rule.rs 4, 377, 341).  The syntax modelled: literals, "." *)
(* (any character but the newline), ^ and $, groups (..) and (?:..),       *)
(* alternation |, the repetitions * + ? and their lazy forms, bracket      *)
(* classes of characters and ranges with ^ negation, the escapes \d \w \s  *)
(* \D \W \S \n \t \r and escaped punctuation.  Characters are ASCII.  On a *)
(* pattern that uses anything else (counted repetition, flags, named       *)
(* groups, nested classes, other escapes, the repetition of an expression  *)
(* that can match the empty string) Regex_new has no value.                *)

AsciiPrintable ==
    <<" ", "!", "\"", "#", "$", "%", "&", "'", "(", ")", "*", "+",
       ",", "-", ".", "/", "0", "1", "2", "3", "4", "5", "6", "7",
       "8", "9", ":", ";", "<", "=", ">", "?", "@", "A", "B", "C",
       "D", "E", "F", "G", "H", "I", "J", "K", "L", "M", "N", "O",
       "P", "Q", "R", "S", "T", "U", "V", "W", "X", "Y", "Z", "[",
       "\\", "]", "^", "_", "" , "a", "b", "c", "d", "e", "f", "g",
       "h", "i", "j", "k", "l", "m", "n", "o", "p", "q", "r", "s",
       "t", "u", "v", "w", "x", "y", "z", "{", "|", "}", "~">>

(* The code of an ASCII character.  The slot of code 96 is left empty: a   *)
(* string cannot hold that character here.                                 *)
Ord(c) ==
    CASE c = "\t" -> 9
      [] c = "\n" -> 10
      [] c = "\r" -> 13
      [] OTHER -> 31 + (CHOOSE i \in 1..95 : AsciiPrintable[i] = c)

HasOrd(c) ==
    \/ c \in {"\t", "\n", "\r"}
    \/ \E i \in 1..95 : AsciiPrintable[i] = c

Range(lo, hi) ==
    [lo |-> Ord(lo), hi |-> Ord(hi)]

DigitRanges ==
    <<Range("0", "9")>>
WordRanges ==
    <<Range("0", "9"), Range("A", "Z"), Range("_", "_"), Range("a", "z")>>
SpaceRanges ==
    <<[lo |-> 9, hi |-> 13], Range(" ", " ")>>

MetaPunct ==
    {"\\", ".", "+", "*", "?", "(", ")", "|", "[", "]", "{", "}", "^", "$",
     "#", "&", "-", "~"}

(* The syntax tree of a pattern.                                           *)
NLit(c) ==
    [k |-> "lit", c |-> c]
NAny ==
    [k |-> "any"]
NClass(neg, ranges) ==
    [k |-> "class", neg |-> neg, ranges |-> ranges]
NBol ==
    [k |-> "bol"]
NEol ==
    [k |-> "eol"]
NCat(xs) ==
    [k |-> "cat", xs |-> xs]
NAlt(xs) ==
    [k |-> "alt", xs |-> xs]
NRep(x, kind, greedy) ==
    [k |-> "rep", x |-> x, kind |-> kind, greedy |-> greedy]

(* What a parsing step gives: a tree and the position after it, a syntax   *)
(* error, or a construct outside the modelled syntax.                      *)
POk(node, pos) ==
    [st |-> "ok", node |-> node, pos |-> pos]
PErr ==
    [st |-> "err"]
PUnsupported ==
    [st |-> "unsupported"]

(* F applied to the value of x, with x computed once.                      *)
With(x, F(_)) ==
    CHOOSE r \in {F(v) : v \in {x}} : TRUE

(* An escape outside a class; p[pos] is the backslash.                     *)
ParseEscape(p, pos) ==
    IF pos + 1 > Len(p) THEN PErr
    ELSE LET e == p[pos + 1]
         IN  CASE e = "d" -> POk(NClass(FALSE, DigitRanges), pos + 2)
               [] e = "D" -> POk(NClass(TRUE, DigitRanges), pos + 2)
               [] e = "w" -> POk(NClass(FALSE, WordRanges), pos + 2)
               [] e = "W" -> POk(NClass(TRUE, WordRanges), pos + 2)
               [] e = "s" -> POk(NClass(FALSE, SpaceRanges), pos + 2)
               [] e = "S" -> POk(NClass(TRUE, SpaceRanges), pos + 2)
               [] e = "n" -> POk(NLit("\n"), pos + 2)
               [] e = "t" -> POk(NLit("\t"), pos + 2)
               [] e = "r" -> POk(NLit("\r"), pos + 2)
               [] e \in MetaPunct -> POk(NLit(e), pos + 2)
               [] OTHER -> PUnsupported

(* One member of a class: a character (c) or a set of ranges.              *)
ClassAtom(p, pos) ==
    IF p[pos] # "\\"
    THEN IF HasOrd(p[pos])
         THEN [st |-> "ok", set |-> FALSE, c |-> p[pos], pos |-> pos + 1]
         ELSE PUnsupported
    ELSE IF pos + 1 > Len(p) THEN PErr
    ELSE LET e == p[pos + 1]
             char(c) == [st |-> "ok", set |-> FALSE, c |-> c, pos |-> pos + 2]
             set(rs) == [st |-> "ok", set |-> TRUE, ranges |-> rs,
                         pos |-> pos + 2]
         IN  CASE e = "d" -> set(DigitRanges)
               [] e = "w" -> set(WordRanges)
               [] e = "s" -> set(SpaceRanges)
               [] e = "n" -> char("\n")
               [] e = "t" -> char("\t")
               [] e = "r" -> char("\r")
               [] e \in MetaPunct -> char(e)
               [] OTHER -> PUnsupported

(* The members of a class up to its closing bracket; first is true at the  *)
(* first member, where an unescaped "]" is a literal that opens no range.  *)
RECURSIVE ParseClassFrom(_, _, _, _)
ParseClassFrom(p, pos, acc, first) ==
    IF pos > Len(p) THEN PErr
    ELSE IF p[pos] = "]" /\ ~first THEN POk(acc, pos + 1)
    ELSE IF p[pos] = "]"
    THEN ParseClassFrom(p, pos + 1, Append(acc, Range("]", "]")), FALSE)
    ELSE IF p[pos] = "[" THEN PUnsupported
    ELSE IF /\ pos + 1 <= Len(p)
            /\ p[pos] \in {"&", "-", "~"}
            /\ p[pos + 1] = p[pos] THEN PUnsupported
    ELSE With(ClassAtom(p, pos), LAMBDA a :
             IF a.st # "ok" THEN a
             ELSE IF /\ a.pos + 1 <= Len(p)
                     /\ p[a.pos] = "-"
                     /\ p[a.pos + 1] \notin {"]", "-"}
             THEN IF a.set THEN PUnsupported
                  ELSE With(ClassAtom(p, a.pos + 1), LAMBDA b :
                           IF b.st # "ok" THEN b
                           ELSE IF b.set THEN PErr
                           ELSE IF Ord(b.c) < Ord(a.c) THEN PErr
                           ELSE ParseClassFrom(p, b.pos,
                                    Append(acc, Range(a.c, b.c)), FALSE))
             ELSE ParseClassFrom(p, a.pos,
                      IF a.set THEN acc \o a.ranges
                      ELSE Append(acc, Range(a.c, a.c)), FALSE))

(* A class; p[pos] is the opening bracket.                                 *)
ParseClass(p, pos) ==
    LET neg == pos + 1 <= Len(p) /\ p[pos + 1] = "^"
    IN  With(ParseClassFrom(p, IF neg THEN pos + 2 ELSE pos + 1, <<>>, TRUE),
             LAMBDA members :
                 IF members.st # "ok" THEN members
                 ELSE POk(NClass(neg, members.node), members.pos))

(* The expression can match the empty string.                              *)
RECURSIVE Nullable(_)
Nullable(node) ==
    CASE node.k \in {"lit", "any", "class"} -> FALSE
      [] node.k \in {"bol", "eol", "rep"} -> TRUE
      [] node.k = "cat" -> \A i \in 1..Len(node.xs) : Nullable(node.xs[i])
      [] node.k = "alt" -> \E i \in 1..Len(node.xs) : Nullable(node.xs[i])

(* The repetition operators that follow an expression.  The repetition of  *)
(* an expression that can match the empty string is outside the syntax     *)
(* modelled.                                                               *)
RECURSIVE ParseQuant(_, _, _)
ParseQuant(p, pos, node) ==
    IF pos > Len(p) THEN POk(node, pos)
    ELSE IF p[pos] = "{" THEN PUnsupported
    ELSE IF p[pos] \notin {"*", "+", "?"} THEN POk(node, pos)
    ELSE IF Nullable(node) THEN PUnsupported
    ELSE LET lazy == pos + 1 <= Len(p) /\ p[pos + 1] = "?"
             next == IF lazy THEN pos + 2 ELSE pos + 1
             rep == CASE p[pos] = "*" -> NRep(node, "star", ~lazy)
                      [] p[pos] = "?" -> NRep(node, "opt", ~lazy)
                      [] p[pos] = "+" ->
                           NCat(<<node, NRep(node, "star", ~lazy)>>)
         IN  ParseQuant(p, next, rep)

RECURSIVE ParseAltFrom(_, _, _)
RECURSIVE ParseCatFrom(_, _, _)

(* One expression without its repetitions.                                 *)
ParseAtom(p, pos) ==
    LET c == p[pos]
        group(from) ==
            With(ParseAltFrom(p, from, <<>>), LAMBDA inner :
                IF inner.st # "ok" THEN inner
                ELSE IF inner.pos > Len(p) THEN PErr
                ELSE POk(inner.node, inner.pos + 1))
    IN  CASE c = "(" ->
               IF pos + 1 <= Len(p) /\ p[pos + 1] = "?"
               THEN IF pos + 2 <= Len(p) /\ p[pos + 2] = ":"
                    THEN group(pos + 3) ELSE PUnsupported
               ELSE group(pos + 1)
          [] c = "." -> POk(NAny, pos + 1)
          [] c = "[" -> ParseClass(p, pos)
          [] c = "\\" -> ParseEscape(p, pos)
          [] c = "^" -> POk(NBol, pos + 1)
          [] c = "$" -> POk(NEol, pos + 1)
          [] c \in {"*", "+", "?"} -> PErr
          [] c = "{" -> PUnsupported
          [] OTHER -> POk(NLit(c), pos + 1)

(* A concatenation, up to the end, a "|" or a ")".                         *)
ParseCatFrom(p, pos, acc) ==
    IF pos > Len(p) \/ p[pos] \in {"|", ")"} THEN POk(NCat(acc), pos)
    ELSE With(ParseAtom(p, pos), LAMBDA a :
             IF a.st # "ok" THEN a
             ELSE With(ParseQuant(p, a.pos, a.node), LAMBDA q :
                      IF q.st # "ok" THEN q
                      ELSE ParseCatFrom(p, q.pos, Append(acc, q.node))))

(* An alternation, up to the end or a ")".                                 *)
ParseAltFrom(p, pos, acc) ==
    With(ParseCatFrom(p, pos, <<>>), LAMBDA c :
        IF c.st # "ok" THEN c
        ELSE IF c.pos <= Len(p) /\ p[c.pos] = "|"
        THEN ParseAltFrom(p, c.pos + 1, Append(acc, c.node))
        ELSE POk(NAlt(Append(acc, c.node)), c.pos))

(* Regex::new: the compiled expression, or an error for a malformed        *)
(* pattern (a ")" left over closes no group).                              *)
Regex_new(pattern) ==
    With(ParseAltFrom(pattern, 1, <<>>), LAMBDA parsed :
        CASE parsed.st = "err" -> [r |-> "Err"]
          [] parsed.st = "ok" /\ parsed.pos <= Len(pattern) -> [r |-> "Err"]
          [] parsed.st = "ok" /\ parsed.pos > Len(pattern) ->
               [r |-> "Ok", re |-> [pattern |-> pattern, ast |-> parsed.node]])

InClass(ranges, c) ==
    \E i \in 1..Len(ranges) : ranges[i].lo <= Ord(c) /\ Ord(c) <= ranges[i].hi

(* The positions at which a match of node that starts at pos can end, in   *)
(* the order of preference of a leftmost-first search: the alternatives    *)
(* from left to right, a greedy repetition longest first.                  *)
RECURSIVE Ends(_, _, _)
RECURSIVE CatEnds(_, _, _, _)
RECURSIVE AltEnds(_, _, _, _)
RECURSIVE StarEnds(_, _, _, _)
RECURSIVE EachEnd(_, _, _, _, _)

(* The ends of xs[i..] from every position of starts, in order.            *)
EachEnd(xs, i, v, starts, j) ==
    IF j > Len(starts) THEN <<>>
    ELSE CatEnds(xs, i, v, starts[j]) \o EachEnd(xs, i, v, starts, j + 1)

CatEnds(xs, i, v, pos) ==
    IF i > Len(xs) THEN <<pos>>
    ELSE With(Ends(xs[i], v, pos), LAMBDA starts :
             EachEnd(xs, i + 1, v, starts, 1))

AltEnds(xs, i, v, pos) ==
    IF i > Len(xs) THEN <<>>
    ELSE Ends(xs[i], v, pos) \o AltEnds(xs, i + 1, v, pos)

(* x repeated from pos; every repetition consumes a character.             *)
StarEnds(x, greedy, v, pos) ==
    With(Ends(x, v, pos), LAMBDA once :
        LET more == EachEnd(<<NRep(x, "star", greedy)>>, 1, v, once, 1)
        IN  IF greedy THEN more \o <<pos>> ELSE <<pos>> \o more)

Ends(node, v, pos) ==
    CASE node.k = "lit" ->
           IF pos <= Len(v) /\ v[pos] = node.c THEN <<pos + 1>> ELSE <<>>
      [] node.k = "any" ->
           IF pos <= Len(v) /\ v[pos] # "\n" THEN <<pos + 1>> ELSE <<>>
      [] node.k = "class" ->
           IF pos <= Len(v) /\ (InClass(node.ranges, v[pos]) # node.neg)
           THEN <<pos + 1>> ELSE <<>>
      [] node.k = "bol" -> IF pos = 1 THEN <<pos>> ELSE <<>>
      [] node.k = "eol" -> IF pos = Len(v) + 1 THEN <<pos>> ELSE <<>>
      [] node.k = "cat" -> CatEnds(node.xs, 1, v, pos)
      [] node.k = "alt" -> AltEnds(node.xs, 1, v, pos)
      [] node.k = "rep" /\ node.kind = "opt" ->
           IF node.greedy THEN Ends(node.x, v, pos) \o <<pos>>
           ELSE <<pos>> \o Ends(node.x, v, pos)
      [] node.k = "rep" /\ node.kind = "star" ->
           StarEnds(node.x, node.greedy, v, pos)

NoMatch ==
    [found |-> FALSE]

(* Regex::find_at: the leftmost match that starts at start or later, as    *)
(* the positions s of its first character and e after its last.            *)
RECURSIVE find_at(_, _, _)
find_at(re, value, start) ==
    IF start > Len(value) + 1 THEN NoMatch
    ELSE With(Ends(re.ast, value, start), LAMBDA ends :
             IF Len(ends) > 0
             THEN [found |-> TRUE, s |-> start, e |-> Head(ends)]
             ELSE find_at(re, value, start + 1))

(* The iterator of Regex::find_iter: the successive non-overlapping        *)
(* matches.  The search after an empty match starts one character on, and  *)
(* an empty match right at the end of the previous match is passed over.   *)
RECURSIVE FindIterFrom(_, _, _, _)
FindIterFrom(re, value, last_end, last_match) ==
    With(find_at(re, value, last_end), LAMBDA m :
        IF ~m.found THEN <<>>
        ELSE IF m.s = m.e
        THEN IF m.e = last_match
             THEN FindIterFrom(re, value, m.e + 1, last_match)
             ELSE <<<<>>>> \o FindIterFrom(re, value, m.e + 1, m.e)
        ELSE <<SubSeq(value, m.s, m.e - 1)>>
             \o FindIterFrom(re, value, m.e, m.e))

find_iter(re, value) ==
    FindIterFrom(re, value, 1, 0)

----------------------------------------------------------------------------
(* configs::singleton().event_key_alias_config: the alias table.           *)

AliasTable ==
    (STR_Channel :> STR_Event_System_Channel)

get_event_key(key) ==
    IF key \in DOMAIN AliasTable THEN Some(AliasTable[key]) ELSE None

(* The descent of get_event_value over the segments of the dotted path.    *)
RECURSIVE Descend(_, _, _)
Descend(ret, segs, i) ==
    IF i > Len(segs) THEN Some(ret)
    ELSE IF ret.t # "Object" THEN None
    ELSE Descend(IF segs[i] \in DOMAIN ret.o THEN ret.o[segs[i]] ELSE JNull,
                 segs, i + 1)

get_event_value(key, event_value) ==
    IF Len(key) = 0 THEN None
    ELSE LET alias == get_event_key(key)
             event_key == IF is_some(alias) THEN alias.v ELSE key
         IN  Descend(event_value, Split(event_key), 1)

RECURSIVE ConcatFold(_, _, _)
ConcatFold(acc, key_list, i) ==
    IF i > Len(key_list) THEN acc
    ELSE ConcatFold(acc \o STR_arrow \o key_list[i], key_list, i + 1)

concat_selection_key(key_list) ==
    ConcatFold(STR_detection_selection, key_list, 1)

----------------------------------------------------------------------------
(* RegexMatcher.                                                           *)

RegexMatcher_new ==
    [re |-> None]

is_regex_fullmatch(re, value) ==
    \E k \in 1..Len(find_iter(re, value)) : find_iter(re, value)[k] = value

is_target_key(key_list) ==
    Len(key_list) = 0

(* The text a selector value is compared as (rule.rs 359-365).             *)
yaml_value(select_value) ==
    CASE select_value.y = "Boolean" -> Some(BoolToString(select_value.b))
      [] select_value.y = "Integer" -> Some(IntToString(select_value.i))
      [] select_value.y = "Real"    -> Some(select_value.r)
      [] select_value.y = "String"  -> Some(select_value.s)
      [] OTHER                      -> None

(* RegexMatcher::init: the matcher after the call and the result.  The     *)
(* compiled expression re_result is only tested for an error; self.re is   *)
(* assigned on the null path alone.                                        *)
RegexMatcher_init(self, key_list, select_value) ==
    IF select_value.y = "Null"
    THEN [matcher |-> [self EXCEPT !.re = None], res |-> Ok]
    ELSE IF is_none(yaml_value(select_value))
    THEN [matcher |-> self,
          res |-> Err(<<STR_unknown_error \o concat_selection_key(key_list)
                        \o STR_close>>)]
    ELSE LET yaml_str == yaml_value(select_value).v
             re_result == Regex_new(yaml_str)
         IN  IF re_result.r = "Err"
             THEN [matcher |-> self,
                   res |-> Err(<<STR_cannot_parse_regex \o yaml_str \o STR_key
                                 \o concat_selection_key(key_list)
                                 \o STR_close>>)]
             ELSE [matcher |-> self, res |-> Ok]

(* event_value.unwrap().as_str().unwrap_or(" ").len() == 0                 *)
as_str_or_space(value) ==
    IF value.t = "String" THEN value.s ELSE STR_space

(* A variant of is_event_value_null without the test for JSON null.        *)
is_event_value_null_without_null(event_value) ==
    \/ is_none(event_value)
    \/ Len(as_str_or_space(event_value.v)) = 0

is_event_value_null(event_value) ==
    \/ is_none(event_value)
    \/ event_value.v.t = "Null"
    \/ Len(as_str_or_space(event_value.v)) = 0

is_match(self, event_value) ==
    IF is_none(self.re) THEN is_event_value_null(event_value)
    ELSE LET value == IF is_some(event_value) THEN event_value.v ELSE JNull
         IN  CASE value.t = "Bool" ->
                    is_regex_fullmatch(self.re.v, BoolToString(value.b))
               [] value.t = "String" ->
                    is_regex_fullmatch(self.re.v, value.s)
               [] value.t = "Number" ->
                    is_regex_fullmatch(self.re.v, IntToString(value.n))
               [] OTHER -> FALSE

----------------------------------------------------------------------------
(* The selection tree.  A panic (unwrap on None, Vec::remove out of range) *)
(* is the value Panic: it aborts the call that meets it.                   *)

Panic ==
    [kind |-> "Panic"]

AndSelectionNode_new ==
    [kind |-> "And", child_nodes |-> <<>>]

OrSelectionNode_new ==
    [kind |-> "Or", child_nodes |-> <<>>]

LeafSelectionNode_new(key_list, value_yaml) ==
    [kind |-> "Leaf", key_list |-> key_list, select_value |-> value_yaml,
     matcher |-> None]

(* Yaml::as_str and Yaml's Index<&str>.                                    *)
as_str(yaml) ==
    IF yaml.y = "String" THEN Some(yaml.s) ELSE None

Yaml_index(yaml, key) ==
    IF yaml.y = "Hash" /\ \E i \in 1..Len(yaml.h) : yaml.h[i].k = YString(key)
    THEN yaml.h[CHOOSE i \in 1..Len(yaml.h) : yaml.h[i].k = YString(key)].v
    ELSE YBadValue

RECURSIVE parse_selection_recursively(_, _)
parse_selection_recursively(key_list, yaml) ==
    IF yaml.y = "Hash"
    THEN LET child(i) ==
                 IF is_none(as_str(yaml.h[i].k)) THEN Panic
                 ELSE parse_selection_recursively(
                          Append(key_list, as_str(yaml.h[i].k).v), yaml.h[i].v)
             children == [i \in 1..Len(yaml.h) |-> child(i)]
         IN  IF \E i \in 1..Len(yaml.h) : children[i] = Panic THEN Panic
             ELSE [AndSelectionNode_new EXCEPT !.child_nodes = children]
    ELSE IF yaml.y = "Array"
    THEN LET children == [i \in 1..Len(yaml.a) |->
                             parse_selection_recursively(key_list, yaml.a[i])]
         IN  IF \E i \in 1..Len(yaml.a) : children[i] = Panic THEN Panic
             ELSE [OrSelectionNode_new EXCEPT !.child_nodes = children]
    ELSE LeafSelectionNode_new(key_list, yaml)

parse_selection(yaml) ==
    LET selection_yaml == Yaml_index(Yaml_index(yaml, STR_detection),
                                     STR_selection)
    IN  IF selection_yaml.y = "BadValue" THEN None
        ELSE Some(parse_selection_recursively(<<>>, selection_yaml))

parse_detection(yaml) ==
    IF Yaml_index(yaml, STR_detection).y = "BadValue" THEN None
    ELSE Some([selection |-> parse_selection(yaml)])

(* parse_rule: the RuleNode, or Panic when the compilation aborts.         *)
parse_rule(yaml) ==
    LET detection == parse_detection(yaml)
    IN  IF is_some(detection) /\ detection.v.selection = Some(Panic)
        THEN Panic
        ELSE [yaml |-> yaml, detection |-> detection]

----------------------------------------------------------------------------
(* select.                                                                 *)

LeafSelectionNode_get_event_value(self, event_value) ==
    IF Len(self.key_list) = 0 THEN None
    ELSE get_event_value(self.key_list[1], event_value)

LeafSelectionNode_select(self, event_record) ==
    IF is_none(self.matcher) THEN FALSE
    ELSE is_match(self.matcher.v,
                  LeafSelectionNode_get_event_value(self, event_record))

RECURSIVE SelectionNode_select(_, _)
SelectionNode_select(node, event_record) ==
    CASE node.kind = "And" ->
           \A i \in 1..Len(node.child_nodes) :
               SelectionNode_select(node.child_nodes[i], event_record)
      [] node.kind = "Or" ->
           \E i \in 1..Len(node.child_nodes) :
               SelectionNode_select(node.child_nodes[i], event_record)
      [] node.kind = "Leaf" -> LeafSelectionNode_select(node, event_record)

RuleNode_select(self, event_record) ==
    IF is_none(self.detection) \/ is_none(self.detection.v.selection)
    THEN FALSE
    ELSE SelectionNode_select(self.detection.v.selection.v, event_record)

----------------------------------------------------------------------------
(* init.  Every init returns the node after the call and the result; the   *)
(* result PanicRes stands for a call that panicked instead of returning.   *)

PanicRes ==
    [r |-> "Panic"]

get_matchers ==
    <<RegexMatcher_new>>

(* matchers.into_iter().find(|matcher| matcher.is_target_key(..))          *)
find_matcher(matchers, match_key_list) ==
    IF \E i \in 1..Len(matchers) : is_target_key(match_key_list)
    THEN Some(matchers[CHOOSE i \in 1..Len(matchers) :
                          /\ is_target_key(match_key_list)
                          /\ \A j \in 1..(i - 1) :
                                 ~is_target_key(match_key_list)])
    ELSE None

LeafSelectionNode_init(self) ==
    IF Len(self.key_list) = 0
    THEN [node |-> self, res |-> PanicRes]
    ELSE LET match_key_list == Tail(self.key_list)
             found == find_matcher(get_matchers, match_key_list)
         IN  IF is_none(found)
             THEN [node |-> [self EXCEPT !.matcher = None],
                   res |-> Err(<<STR_found_unknown_key
                                 \o concat_selection_key(match_key_list)>>)]
             ELSE LET bound == RegexMatcher_init(found.v, match_key_list,
                                                 self.select_value)
                  IN  [node |-> [self EXCEPT !.matcher = Some(bound.matcher)],
                       res |-> bound.res]

RECURSIVE SelectionNode_init(_)

(* The fold of rule.rs 178-184 over the children's results.                *)
RECURSIVE fold_err_msgs(_, _, _)
fold_err_msgs(acc, results, i) ==
    IF i > Len(results) THEN acc
    ELSE fold_err_msgs(acc \o (IF is_err(results[i].res)
                               THEN results[i].res.e ELSE <<>>),
                       results, i + 1)

(* A variant of init_children that stops at the first child whose init     *)
(* fails and returns that child's errors alone.                            *)
init_children_failfast(self) ==
    LET results == [i \in 1..Len(self.child_nodes) |->
                       SelectionNode_init(self.child_nodes[i])]
        failed == {i \in 1..Len(results) : results[i].res # Ok}
        first == IF failed = {} THEN Len(results) + 1
                 ELSE CHOOSE i \in failed : \A j \in failed : i <= j
    IN  IF failed # {} /\ results[first].res = PanicRes
        THEN [node |-> self, res |-> PanicRes]
        ELSE [node |-> [self EXCEPT !.child_nodes =
                          [i \in 1..Len(results) |->
                              IF i <= first THEN results[i].node
                              ELSE self.child_nodes[i]]],
              res |-> IF failed = {} THEN Ok ELSE results[first].res]

(* The map and fold shared by AndSelectionNode::init (166-191) and         *)
(* OrSelectionNode::init (214-239): every child is initialised, in order.  *)
init_children(self) ==
    LET results == [i \in 1..Len(self.child_nodes) |->
                       SelectionNode_init(self.child_nodes[i])]
        err_msgs == fold_err_msgs(<<>>, results, 1)
    IN  IF \E i \in 1..Len(results) : results[i].res = PanicRes
        THEN [node |-> self, res |-> PanicRes]
        ELSE [node |-> [self EXCEPT !.child_nodes =
                          [i \in 1..Len(results) |-> results[i].node]],
              res |-> IF Len(err_msgs) = 0 THEN Ok ELSE Err(err_msgs)]

AndSelectionNode_init(self) ==
    init_children(self)

OrSelectionNode_init(self) ==
    init_children(self)

SelectionNode_init(node) ==
    CASE node.kind = "And" -> AndSelectionNode_init(node)
      [] node.kind = "Or" -> OrSelectionNode_init(node)
      [] node.kind = "Leaf" -> LeafSelectionNode_init(node)

DetectionNode_init(self) ==
    IF is_none(self.selection) THEN [node |-> self, res |-> Ok]
    ELSE LET r == SelectionNode_init(self.selection.v)
         IN  [node |-> [self EXCEPT !.selection = Some(r.node)],
              res |-> r.res]

RuleNode_init(self) ==
    IF is_none(self.detection) THEN [node |-> self, res |-> Ok]
    ELSE LET r == DetectionNode_init(self.detection.v)
         IN  [node |-> [self EXCEPT !.detection = Some(r.node)],
              res |-> r.res]

----------------------------------------------------------------------------
(* Inputs: rule documents and event records.                               *)

Doc(selection_yaml) ==
    YHash(<<Entry(YString(STR_detection),
                  YHash(<<Entry(YString(STR_selection), selection_yaml)>>))>>)

Sel1(field, value) ==
    YHash(<<Entry(YString(field), value)>>)

(* {detection:{selection:{EventID:4624, LogonType:[2,10]}}}                *)
DocScenario ==
    Doc(YHash(<<Entry(YString(STR_EventID), YInteger(4624)),
                Entry(YString(STR_LogonType),
                      YArray(<<YInteger(2), YInteger(10)>>))>>))

(* Three leaves, those of B and C under the modifier m.                    *)
DocModifiers ==
    Doc(YHash(<<Entry(YString(<<"B">>), Sel1(<<"m">>, YInteger(2))),
                Entry(YString(<<"A">>), YInteger(1)),
                Entry(YString(<<"C">>), Sel1(<<"m">>, YInteger(3)))>>))

(* The same three leaves as the alternatives of a sequence.                *)
DocOrModifiers ==
    Doc(Sel1(<<"F">>, YArray(<<Sel1(<<"m">>, YInteger(2)),
                               YString(STR_abc),
                               Sel1(<<"m">>, YString(<<"(">>))>>)))

(* Two malformed patterns around a null selector.                          *)
DocBadRegexes ==
    Doc(YHash(<<Entry(YString(<<"A">>), YString(<<"(", "a">>)),
                Entry(YString(<<"F">>), YNull),
                Entry(YString(<<"B">>),
                      YArray(<<YString(<<"(">>), YInteger(1)>>))>>))

DocNoDetection ==
    YHash(<<Entry(YString(<<"t">>), YString(<<"x">>))>>)

DocNoSelection ==
    YHash(<<Entry(YString(STR_detection), YHash(<<>>))>>)

DocEmptySelection ==
    Doc(YHash(<<>>))

DocEmptySequence ==
    Doc(Sel1(<<"F">>, YArray(<<>>)))

(* A scalar, a sequence of scalars and null directly under selection.      *)
DocScalar ==
    Doc(YString(STR_abc))

DocSequence ==
    Doc(YArray(<<YInteger(1), YInteger(2)>>))

DocNullSelection ==
    Doc(YNull)

(* A mapping key that is not a string: {4624: "x"}.                        *)
DocIntegerKey ==
    Doc(YHash(<<Entry(YInteger(4624), YString(<<"x">>))>>))

DocNestedIntegerKey ==
    Doc(Sel1(<<"F">>, YArray(<<YInteger(1),
                               YHash(<<Entry(YBoolean(TRUE), YNull)>>)>>)))

(* The values of a leaf and the field names they are put under.            *)
SelectorValues ==
    {YNull, YBoolean(TRUE), YInteger(42), YInteger(-7), YReal(<<"1", ".", "5">>),
     YString(STR_abc), YString(<<>>), YString(<<"a", ".", "c">>),
     YString(<<"(", "a", "b">>), YAlias(1)}

FieldNames ==
    {<<"F">>, STR_Channel, <<"a", ".", "b">>, <<>>}

LeafDocs ==
    {Doc(Sel1(f, v)) : f \in FieldNames, v \in SelectorValues}

StructuredDocs ==
    {DocScenario, DocModifiers, DocOrModifiers, DocBadRegexes, DocNoDetection,
     DocNoSelection, DocEmptySelection, DocEmptySequence, DocScalar,
     DocSequence, DocNullSelection, DocIntegerKey, DocNestedIntegerKey}

Docs ==
    LeafDocs \cup StructuredDocs

Obj1(k, v) ==
    JObject(k :> v)

Obj2(k1, v1, k2, v2) ==
    JObject(k1 :> v1 @@ k2 :> v2)

FieldValues ==
    {JNull, JBool(TRUE), JBool(FALSE), JNumber(42), JNumber(-7), JNumber(0),
     JString(<<>>), JString(STR_abc), JString(STR_xabcx), JString(STR_abcd),
     JString(<<"1", ".", "5">>), JString(<<"4", "2">>), JString(STR_true),
     JString(STR_space), JArray(<<>>), JArray(<<JString(<<>>)>>),
     JObject(EmptyMap), Obj1(<<"b">>, JString(<<>>))}

ScenarioRecords ==
    {Obj2(STR_EventID, JNumber(4624), STR_LogonType, JNumber(10)),
     Obj2(STR_EventID, JNumber(4624), STR_LogonType, JNumber(3)),
     Obj2(STR_EventID, JNumber(4625), STR_LogonType, JNumber(2)),
     Obj2(STR_EventID, JNumber(4624), STR_LogonType, JNumber(2))}

Records ==
    {Obj1(<<"F">>, v) : v \in FieldValues}
    \cup {Obj1(<<"a">>, v) : v \in {JString(STR_abc), JNull,
                                    Obj1(<<"b">>, JString(STR_abc)),
                                    Obj1(<<"b">>, JString(<<>>)),
                                    Obj1(<<"c">>, JString(STR_abc))}}
    \cup {Obj1(STR_Channel, JString(STR_abc)),
          Obj1(STR_Event, Obj1(STR_System, Obj1(STR_Channel, JString(STR_abc)))),
          Obj1(STR_Event, Obj1(STR_System, Obj1(STR_Channel, JString(<<>>)))),
          Obj1(STR_Event, Obj1(STR_System, JNumber(1))),
          Obj1(<<"a", ".", "b">>, JString(STR_abc)),
          Obj1(<<>>, JString(STR_abc)),
          Obj2(<<"A">>, JNumber(1), <<"F">>, JString(<<>>)),
          JObject(EmptyMap), JNull, JString(<<>>)}
    \cup ScenarioRecords

----------------------------------------------------------------------------
(* Bounds.                                                                 *)

MaxInitCalls ==
    2
MaxFiles ==
    2
MaxEventRecords ==
    2

----------------------------------------------------------------------------
(* State.                                                                  *)
(*   The rule engine driven through its interface:                         *)
(*     pc            "new", "parsed", or "panic" once a call has aborted   *)
(*     yaml          the rule document                                     *)
(*     rule          the RuleNode (NoRule before parse_rule)               *)
(*     init_calls    how many times init ran on the rule                   *)
(*     init_res      the result of the last init                           *)
(*     event_record  the record of the last select                         *)
(*     select_res    what the last select returned                         *)
(*   Detection::start:                                                     *)
(*     dpc           the position in start                                 *)
(*     readdir_ok    whether read_dir succeeds                             *)
(*     files         the rule files read from the directory                *)
(*     event_records the decoded records                                   *)
(*     rules         the parsed rules                                      *)
(*     ri, ei        the rule and the record the selection loop is at      *)
(*     message       the records inserted into the Message                 *)
(*     calls         the calls start has made on the rules, in order       *)

VARIABLES pc, yaml, rule, init_calls, init_res, event_record, select_res,
          dpc, readdir_ok, files, event_records, rules, ri, ei, message,
          calls

api_vars ==
    <<pc, yaml, rule, init_calls, init_res, event_record, select_res>>

start_vars ==
    <<dpc, readdir_ok, files, event_records, rules, ri, ei, message, calls>>

vars ==
    <<pc, yaml, rule, init_calls, init_res, event_record, select_res,
      dpc, readdir_ok, files, event_records, rules, ri, ei, message, calls>>

NoRule ==
    [kind |-> "NoRule"]

ApiIdle ==
    /\ pc = "idle"
    /\ yaml = YNull
    /\ rule = NoRule
    /\ init_calls = 0
    /\ init_res = None
    /\ event_record = None
    /\ select_res = FALSE

StartIdle ==
    /\ dpc = "idle"
    /\ readdir_ok = TRUE
    /\ files = <<>>
    /\ event_records = <<>>
    /\ rules = <<>>
    /\ ri = 1
    /\ ei = 1
    /\ message = <<>>
    /\ calls = <<>>

----------------------------------------------------------------------------
(* The rule engine: parse_rule, RuleNode::init, RuleNode::select.          *)

Init ==
    /\ pc = "new"
    /\ yaml \in Docs
    /\ rule = NoRule
    /\ init_calls = 0
    /\ init_res = None
    /\ event_record = None
    /\ select_res = FALSE
    /\ StartIdle

ParseRule ==
    /\ pc = "new"
    /\ rule' = parse_rule(yaml)
    /\ pc' = IF parse_rule(yaml) = Panic THEN "panic" ELSE "parsed"
    /\ UNCHANGED <<yaml, init_calls, init_res, event_record, select_res>>
    /\ UNCHANGED start_vars

RuleInit ==
    /\ pc = "parsed"
    /\ init_calls < MaxInitCalls
    /\ LET r == RuleNode_init(rule)
       IN  /\ rule' = r.node
           /\ init_res' = Some(r.res)
           /\ pc' = IF r.res = PanicRes THEN "panic" ELSE "parsed"
    /\ init_calls' = init_calls + 1
    /\ UNCHANGED <<yaml, event_record, select_res>>
    /\ UNCHANGED start_vars

RuleSelect ==
    /\ pc = "parsed"
    /\ \E rec \in Records :
          /\ event_record' = Some(rec)
          /\ select_res' = RuleNode_select(rule, rec)
    /\ UNCHANGED <<pc, yaml, rule, init_calls, init_res>>
    /\ UNCHANGED start_vars

Next ==
    \/ ParseRule
    \/ RuleInit
    \/ RuleSelect

Spec ==
    Init /\ [][Next]_vars

----------------------------------------------------------------------------
(* Detection::start (detection.rs 26-77).                                  *)

StartDocs ==
    {DocScenario, Doc(Sel1(<<"F">>, YNull)), Doc(Sel1(<<"F">>, YString(STR_abc))),
     DocNoSelection, DocIntegerKey}

StartRecords ==
    {Obj2(STR_EventID, JNumber(4624), STR_LogonType, JNumber(10)),
     Obj1(<<"F">>, JString(STR_abc)), JObject(EmptyMap)}

SeqsUpTo(S, n) ==
    UNION {[1..k -> S] : k \in 0..n}

(* Message::insert, for the one timestamp start passes.                    *)
Message_insert(self, record) ==
    Append(self, record)

InitStart ==
    /\ ApiIdle
    /\ dpc = "read_dir"
    /\ readdir_ok \in BOOLEAN
    /\ files \in SeqsUpTo(StartDocs, MaxFiles)
    /\ event_records \in SeqsUpTo(StartRecords, MaxEventRecords)
    /\ rules = <<>>
    /\ ri = 1
    /\ ei = 1
    /\ message = <<>>
    /\ calls = <<>>

(* 52-57: the rule files are loaded, or start returns.                     *)
StartReadDir ==
    /\ dpc = "read_dir"
    /\ dpc' = IF readdir_ok THEN "parse" ELSE "returned"
    /\ UNCHANGED <<readdir_ok, files, event_records, rules, ri, ei, message,
                   calls>>
    /\ UNCHANGED api_vars

(* 60-64: every file goes through parse_rule.                              *)
StartParseRules ==
    /\ dpc = "parse"
    /\ LET parsed == [i \in 1..Len(files) |-> parse_rule(files[i])]
           aborted == {i \in 1..Len(files) : parsed[i] = Panic}
           last == IF aborted = {} THEN Len(files)
                   ELSE CHOOSE i \in aborted : \A j \in aborted : i <= j
       IN  /\ rules' = IF aborted = {} THEN parsed ELSE <<>>
           /\ calls' = [i \in 1..last |-> [op |-> "parse_rule", rule |-> i]]
           /\ dpc' = IF aborted # {} THEN "panic"
                     ELSE IF Len(files) = 0 THEN "debug" ELSE "select"
    /\ UNCHANGED <<readdir_ok, files, event_records, ri, ei, message>>
    /\ UNCHANGED api_vars

(* 68-73: one record filtered through one rule's select.  The call is     *)
(* rule.detection.select(event_record): detection is a private field of    *)
(* RuleNode, an Option<DetectionNode>, and rule.rs defines no select on    *)
(* it, so what the call returns is not determined by the source and is     *)
(* left open here.                                                         *)
StartSelect ==
    /\ dpc = "select"
    /\ IF ei > Len(event_records)
       THEN /\ ri' = ri + 1
            /\ ei' = 1
            /\ dpc' = IF ri = Len(rules) THEN "debug" ELSE "select"
            /\ UNCHANGED <<message, calls>>
       ELSE /\ calls' = Append(calls, [op |-> "select", rule |-> ri])
            /\ \E selected \in BOOLEAN :
                  message' = IF selected
                             THEN Message_insert(message, event_records[ei])
                             ELSE message
            /\ ei' = ei + 1
            /\ UNCHANGED <<ri, dpc>>
    /\ UNCHANGED <<readdir_ok, files, event_records, rules>>
    /\ UNCHANGED api_vars

(* 76: message.debug().                                                    *)
StartDebug ==
    /\ dpc = "debug"
    /\ dpc' = "done"
    /\ UNCHANGED <<readdir_ok, files, event_records, rules, ri, ei, message,
                   calls>>
    /\ UNCHANGED api_vars

NextStart ==
    \/ StartReadDir
    \/ StartParseRules
    \/ StartSelect
    \/ StartDebug

SpecStart ==
    InitStart /\ [][NextStart]_vars

----------------------------------------------------------------------------
(* Helpers of the properties.                                              *)

(* The leaves of a selection tree, left to right.                          *)
RECURSIVE Leaves(_)
RECURSIVE LeavesOfChildren(_, _)
LeavesOfChildren(child_nodes, i) ==
    IF i > Len(child_nodes) THEN <<>>
    ELSE Leaves(child_nodes[i]) \o LeavesOfChildren(child_nodes, i + 1)

Leaves(node) ==
    IF node.kind = "Leaf" THEN <<node>>
    ELSE LeavesOfChildren(node.child_nodes, 1)

RuleLeaves(r) ==
    IF is_none(r.detection) \/ is_none(r.detection.v.selection) THEN <<>>
    ELSE Leaves(r.detection.v.selection.v)

Contains(s, sub) ==
    \E i \in 1..(Len(s) - Len(sub) + 1) : SubSeq(s, i, i + Len(sub) - 1) = sub

LeafDoc(f, v) ==
    Doc(Sel1(f, v))

RecAbc ==
    Obj1(<<"F">>, JString(STR_abc))
RecXabcx ==
    Obj1(<<"F">>, JString(STR_xabcx))
RecAbcd ==
    Obj1(<<"F">>, JString(STR_abcd))
Rec4624_10 ==
    Obj2(STR_EventID, JNumber(4624), STR_LogonType, JNumber(10))
Rec4624_3 ==
    Obj2(STR_EventID, JNumber(4624), STR_LogonType, JNumber(3))
Rec4625_2 ==
    Obj2(STR_EventID, JNumber(4625), STR_LogonType, JNumber(2))

(* The rule has been parsed and its last init returned Ok.                 *)
Validated ==
    pc = "parsed" /\ init_res = Some(Ok)

----------------------------------------------------------------------------
(* C1: for the rule {detection:{selection:{EventID:4624,                   *)
(* LogonType:[2,10]}}}, a select made after a successful init returns true *)
(* for {EventID:4624, LogonType:10}, false for {EventID:4624, LogonType:3} *)
(* and false for {EventID:4625, LogonType:2}.                              *)
C1_ScenarioSelect ==
    [][(RuleSelect /\ yaml = DocScenario /\ Validated)
         => /\ event_record' = Some(Rec4624_10) => select_res' = TRUE
            /\ event_record' = Some(Rec4624_3) => select_res' = FALSE
            /\ event_record' = Some(Rec4625_2) => select_res' = FALSE]_vars

(* C2: for the validated leaf F: abc, select is true when the field value  *)
(* is the string abc and false when it is xabcx or abcd.                   *)
C2_FullStringMatch ==
    [][(RuleSelect /\ yaml = LeafDoc(<<"F">>, YString(STR_abc)) /\ Validated)
         => /\ event_record' = Some(RecAbc) => select_res' = TRUE
            /\ event_record' = Some(RecXabcx) => select_res' = FALSE
            /\ event_record' = Some(RecAbcd) => select_res' = FALSE]_vars

(* C3: once init has returned Ok, every leaf has a matcher whose compiled  *)
(* pattern re is absent exactly when the leaf's configured value is null.  *)
C3_PatternAbsentIffNull ==
    (Validated /\ init_calls > 0)
      => \A k \in 1..Len(RuleLeaves(rule)) :
            LET leaf == RuleLeaves(rule)[k]
            IN  /\ is_some(leaf.matcher)
                /\ is_none(leaf.matcher.v.re) <=> leaf.select_value = YNull

(* init returns an error for this leaf (it would, were it run on it).      *)
LeafInitFails(leaf) ==
    /\ Len(leaf.key_list) > 0
    /\ is_err(LeafSelectionNode_init(leaf).res)

(* C4: a leaf on which init was never run, or on which init returned an    *)
(* error, has no bound matcher and select on it is false for every record. *)
C4_FailClosedLeaves ==
    pc = "parsed"
      => \A k \in 1..Len(RuleLeaves(rule)) :
            LET leaf == RuleLeaves(rule)[k]
            IN  (init_calls = 0 \/ LeafInitFails(leaf))
                  => /\ is_none(leaf.matcher)
                     /\ \A rec \in Records :
                           ~LeafSelectionNode_select(leaf, rec)

(* The error lists of the leaves, each initialised on its own, in order.   *)
RECURSIVE LeafErrors(_, _)
LeafErrors(leaves, i) ==
    IF i > Len(leaves) THEN <<>>
    ELSE (IF is_err(LeafSelectionNode_init(leaves[i]).res)
          THEN LeafSelectionNode_init(leaves[i]).res.e ELSE <<>>)
         \o LeafErrors(leaves, i + 1)

(* C5: an init of an And/Or tree that returns has run init on every leaf   *)
(* below it, also those after a failed one, and returns Err with the       *)
(* errors of all of them in tree order, Ok only when there is none; the    *)
(* three-leaf rule with two unbindable modifiers reports two errors.       *)
C5_AggregateValidation ==
    (pc = "parsed" /\ init_calls > 0)
      => LET errs == LeafErrors(RuleLeaves(parse_rule(yaml)), 1)
         IN  /\ init_res = Some(IF Len(errs) = 0 THEN Ok ELSE Err(errs))
             /\ \A k \in 1..Len(RuleLeaves(rule)) :
                   Len(RuleLeaves(rule)[k].key_list) = 1
                     => is_some(RuleLeaves(rule)[k].matcher)
             /\ yaml \in {DocModifiers, DocOrModifiers, DocBadRegexes}
                  => is_err(init_res.v) /\ Len(init_res.v.e) = 2

(* Two of three leaves failed, and the leaf after the first failure is     *)
(* bound all the same.                                                     *)
C5_Witness ==
    /\ pc = "parsed"
    /\ yaml = DocModifiers
    /\ init_res # None
    /\ is_err(init_res.v)
    /\ Len(init_res.v.e) = 2
    /\ is_some(RuleLeaves(rule)[2].matcher)

(* C6: every leaf of a parsed rule has a non-empty key_list, and under a   *)
(* selection mapping its first element is one of the mapping's fields.     *)
C6_KeyListNonEmpty ==
    pc = "parsed"
      => \A k \in 1..Len(RuleLeaves(rule)) :
            LET leaf == RuleLeaves(rule)[k]
                selection_yaml == Yaml_index(Yaml_index(yaml, STR_detection),
                                             STR_selection)
            IN  /\ Len(leaf.key_list) > 0
                /\ selection_yaml.y = "Hash"
                     => \E i \in 1..Len(selection_yaml.h) :
                           selection_yaml.h[i].k = YString(leaf.key_list[1])

(* C7: in Detection::start every select on a rule comes after exactly one  *)
(* init of that rule.                                                      *)
C7_InitBeforeSelect ==
    \A k \in 1..Len(calls) :
       calls[k].op = "select"
         => Cardinality({j \in 1..(k - 1) :
                           calls[j] = [op |-> "init",
                                       rule |-> calls[k].rule]}) = 1

(* The path the errors are to name: detection -> selection -> seg1 -> ...  *)
RECURSIVE QualifiedPath(_)
QualifiedPath(key_list) ==
    IF Len(key_list) = 0 THEN STR_detection_selection
    ELSE QualifiedPath(SubSeq(key_list, 1, Len(key_list) - 1))
         \o STR_arrow \o key_list[Len(key_list)]

FailingLeaves(r) ==
    SelectSeq(RuleLeaves(r), LeafInitFails)

(* C8: init reports one error per failing leaf, and each names the leaf's  *)
(* whole key path, the field name included.                                *)
C8_ErrorsNameFullPath ==
    (pc = "parsed" /\ init_res # None /\ is_err(init_res.v))
      => /\ Len(init_res.v.e) = Len(FailingLeaves(rule))
         /\ \A k \in 1..Len(init_res.v.e) :
               k <= Len(FailingLeaves(rule))
                 => Contains(init_res.v.e[k],
                             QualifiedPath(FailingLeaves(rule)[k].key_list))

(* Where the value of a field lies in a record, written out by hand.       *)
PathOf(field) ==
    CASE field = <<"F">> -> <<<<"F">>>>
      [] field = STR_Channel -> <<STR_Event, STR_System, STR_Channel>>
      [] field = <<"a", ".", "b">> -> <<<<"a">>, <<"b">>>>

RECURSIVE IsEmptyAt(_, _, _)
IsEmptyAt(value, path, i) ==
    IF i > Len(path)
    THEN value.t = "Null" \/ (value.t = "String" /\ value.s = <<>>)
    ELSE IF value.t # "Object" THEN TRUE
    ELSE IF path[i] \notin DOMAIN value.o THEN TRUE
    ELSE IsEmptyAt(value.o[path[i]], path, i + 1)

(* What the claim says a null selector on field returns for record rec.    *)
NullSelectorExpected(field, rec) ==
    IF field = <<>> THEN TRUE ELSE IsEmptyAt(rec, PathOf(field), 1)

(* C9: for a validated leaf with a null selector, select is true exactly   *)
(* when the field resolves to nothing, to null or to the empty string.     *)
C9_NullSelector ==
    [][\A f \in FieldNames :
          (RuleSelect /\ yaml = LeafDoc(f, YNull) /\ Validated)
            => (select_res' <=> NullSelectorExpected(f, event_record'.v))]_vars

(* The path a.b descends into the string under a, and the leaf matches.    *)
C9_Witness ==
    /\ Validated
    /\ yaml = LeafDoc(<<"a", ".", "b">>, YNull)
    /\ event_record = Some(Obj1(<<"a">>, JString(STR_abc)))
    /\ select_res = TRUE

(* C10: parse_rule returns a RuleNode for every document; it never aborts. *)
C10_ParseNeverAborts ==
    pc # "new" => rule # Panic

====
